---- MODULE Spec2Model ----
(***************************************************************************)
(* MediaCacheService (frontend/src/services/cache.ts): the IndexedDB cache *)
(* of video, thumbnail and spritesheet blobs.                              *)
(*                                                                         *)
(* The model follows the JavaScript event loop.  A call of an async method *)
(* runs synchronously up to its first await (`await this.init()`); its     *)
(* continuation is a microtask, and microtasks run in the order they were  *)
(* queued (the sequence `waiting`).  IndexedDB events (open success/error, *)
(* request success/error) are tasks: one fires only when no microtask is   *)
(* runnable.  Requests of one connection on one object store are served in *)
(* the order their transactions were created (the sequence `requests`).    *)
(* An event action is the engine carrying out the request together with    *)
(* the handler the code installed for the event and the promise reactions  *)
(* that follow from it.                                                    *)
(*                                                                         *)
(* A Blob is the sequence of its bytes; null/undefined is the empty option *)
(* <<>> and a present value x is <<x>>.  CachedMedia.cachedAt (Date.now()) *)
(* is never read by the service and is left out of the records.            *)
(***************************************************************************)
EXTENDS Integers, Sequences, FiniteSets, TLC

\* ------------------------------------------------------------- bounds
\* Number of callers that may have a call of the service in flight at once.
MaxCallers == 2
\* Cap of the counters of indexedDB.open calls and of schema set-ups.
MaxOpens == 2

\* ---------------------------------------------------------- constants
DB_VERSION == 1
STORE_NAME == "media"

\* The closed variant set of CachedMedia.variant.
VariantSet == {"video", "thumbnail", "spritesheet"}

\* A fan-out that leaves the spritesheet out.
FanOutShort == <<"video", "thumbnail">>

\* The variants delete(videoId) deletes, in the order of its Promise.all list.
FanOut == <<"video", "thumbnail", "spritesheet">>
FanOutSet == {FanOut[i] : i \in 1..Len(FanOut)}

\* Inputs: the second id ends in what getCacheKey appends to the first.
Ids == {"vid_1", "vid_1-thumbnail"}
Blobs == {<<1>>, <<2, 3>>}
Callers == 1..MaxCallers
Null == <<>>
Some(x) == <<x>>
BlobSize(blob) == Len(blob)
ZeroStats == [count |-> 0, size |-> 0]

VARIABLES
    db,           \* this.db: "null" or "open"
    initPromise,  \* this.initPromise: "null", "pending", "fulfilled", "rejected"
    openReq,      \* the IDBOpenDBRequest: "none", "pending", "upgraded", "done"
    opens,        \* number of indexedDB.open calls of this instance
    schemaSetups, \* number of createObjectStore calls of this instance
    idbVersion,   \* version of the database on disk (0: it does not exist)
    storeNames,   \* db.objectStoreNames
    media,        \* the records of object store 'media'
    calls,        \* per caller: the call of the service it has in flight
    subs,         \* per caller and variant: the this.delete(videoId, variant) of a fan-out
    waiting,      \* continuations waiting on `await this.init()`, in order
    requests,     \* IndexedDB requests not yet served, in order
    contents,     \* the cache as its callers know it: (id, variant) -> blob or Null
    api           \* per caller: the call of SoraApiService it has in flight

vars == <<db, initPromise, openReq, opens, schemaSetups, idbVersion, storeNames,
          media, calls, subs, waiting, requests, contents, api>>

conn == <<db, initPromise, openReq, opens, schemaSetups, idbVersion, storeNames>>

\* ------------------------------------------------------ pure functions
\* A key that leaves the variant out.
GetCacheKeyNoVariant(videoId, variant) ==
    videoId

\* A key that leaves the default variant implicit.
GetCacheKeyImplicitVideo(videoId, variant) ==
    IF variant = "video" THEN videoId ELSE videoId \o "-" \o variant

GetCacheKey(videoId, variant) ==
    videoId \o "-" \o variant

CachedMedia(videoId, variant, blob) ==
    [id |-> GetCacheKey(videoId, variant), variant |-> variant, blob |-> blob]

\* A store keyed by 'variant' instead of 'id': put replaces the record of
\* the same variant.
PutKeyedByVariant(records, item) ==
    {r \in records : r.variant # item.variant} \cup {item}

\* A put with the meaning of store.add: the record of the same key stays.
PutKeepsFirst(records, item) ==
    IF \E r \in records : r.id = item.id THEN records ELSE records \cup {item}

\* A put that adds the record and keeps the one of the same key.
PutAppend(records, item) ==
    records \cup {item}

\* store.put(item) on an object store with keyPath 'id': the record of the
\* same key, if any, is replaced.
Put(records, item) ==
    {r \in records : r.id # item.id} \cup {item}

\* store.get(key): request.result is the record of that key, or undefined.
StoreGet(records, key) ==
    IF \E r \in records : r.id = key
    THEN Some(CHOOSE r \in records : r.id = key)
    ELSE Null

\* A delete that empties the store.
StoreDeleteClears(records, key) ==
    {}

\* A delete whose filter is inverted: it keeps the record of the key alone.
StoreDeleteInverted(records, key) ==
    {r \in records : r.id = key}

\* store.delete(key): succeeds whether or not a record has that key.
StoreDelete(records, key) ==
    {r \in records : r.id # key}

StoreClear(records) ==
    {}

\* get's onsuccess handler: result ? result.blob : null
GetResolve(result) ==
    IF result # Null THEN Some(result[1].blob) ELSE Null

RECURSIVE TotalSize(_)
TotalSize(items) ==
    IF items = {} THEN 0
    ELSE LET item == CHOOSE r \in items : TRUE
         IN  BlobSize(item.blob) + TotalSize(items \ {item})

\* A scan that adds one per item instead of its blob's size.
ScanStatsCountsEntries(items) ==
    [count |-> Cardinality(items), size |-> Cardinality(items)]

\* getStats' onsuccess handler over request.result of store.getAll()
ScanStats(items) ==
    [count |-> Cardinality(items), size |-> TotalSize(items)]

\* What get(videoId, variant) reads from a store holding `records`.
Lookup(records, videoId, variant) ==
    GetResolve(StoreGet(records, GetCacheKey(videoId, variant)))

\* ------------------------------------------------------------- calls
IdleCall ==
    [op |-> "none", id |-> "", variant |-> "", blob |-> Null, pc |-> "idle",
     result |-> Null, stats |-> ZeroStats, fault |-> "none", before |-> {},
     opened |-> FALSE]

Task(c, v) == [c |-> c, v |-> v]

Settled(call) == call.pc \in {"resolved", "rejected"}

\* An init() that looks at the handle alone.
ShouldOpenWithoutPromise(handle, promise) ==
    handle = "null"

\* An init() that opens again after a failed initialization.
ShouldOpenAfterFailure(handle, promise) ==
    handle = "null" /\ promise \in {"null", "rejected"}

\* init(): a connection is opened only without a handle and without an
\* initialization promise.
ShouldOpen(handle, promise) ==
    handle = "null" /\ promise = "null"

\* A catch block that throws the error on.
CaughtRethrown(call, fault) ==
    [call EXCEPT !.pc = "rejected", !.fault = fault]

\* The catch block of each method: the error is logged and the call resolves,
\* get with null and getStats with zeros.
Caught(call, fault) ==
    [call EXCEPT !.pc = "resolved", !.fault = fault, !.result = Null,
                 !.stats = ZeroStats]

\* `return new Promise(...)` inside try, without await: the promise of the
\* call follows the returned one, and its rejection passes the catch block by.
ReturnedPromiseRejected(call, fault) ==
    [call EXCEPT !.pc = "rejected", !.fault = fault]

\* A delete(videoId) without its catch block.
FanOutRethrown(call) ==
    [call EXCEPT !.pc = "rejected", !.fault = "sub"]

\* The catch block of delete(videoId) around `await Promise.all([...])`.
FanOutCaught(call) ==
    [call EXCEPT !.pc = "resolved", !.fault = "sub"]

\* The reactions of Promise.all in delete(videoId): it rejects with the first
\* rejection (caught by the catch block) and fulfils when all three fulfil.
\* The three continuations were queued before any of them ran, so they have
\* all run before the reaction to one of them does.
SettleParents(cs, ss) ==
    [c \in Callers |->
        IF cs[c].pc = "awaitAll" /\ \A v \in FanOutSet : ss[c][v] # "awaitInit"
        THEN IF \E v \in FanOutSet : ss[c][v] = "rejected"
             THEN FanOutCaught(cs[c])
             ELSE IF \A v \in FanOutSet : ss[c][v] = "resolved"
                  THEN [cs[c] EXCEPT !.pc = "resolved"]
                  ELSE cs[c]
        ELSE cs[c]]

\* The continuations after `await this.init()` can run: the promise settled.
InitWaitersRunnable ==
    waiting # <<>> /\ initPromise \in {"fulfilled", "rejected"}

\* The continuation of a SoraApiService call after its await of a method of
\* the cache can run: the method's promise settled.
ApiRunnable ==
    \E c \in Callers :
        api[c].pc \in {"get", "set", "cacheDelete"} /\ Settled(calls[c])

MicrotasksRunnable ==
    InitWaitersRunnable \/ ApiRunnable

AllIdle == \A c \in Callers : calls[c].pc = "idle"

\* ------------------------------------------------- SoraApiService calls
\* A call of downloadVideo or deleteVideo: `cachedBlob` and `blob` are the
\* locals of downloadVideo, `fetches` counts its requests to the network.
IdleApi ==
    [op |-> "none", id |-> "", variant |-> "", pc |-> "idle",
     cachedBlob |-> Null, blob |-> Null, result |-> Null, fetches |-> 0,
     error |-> "none", readFault |-> "none", before |-> {}]

ApiSettled(a) == a.pc \in {"resolved", "rejected"}

\* A downloadVideo that never takes the cached blob.
UseCachedNever(cachedBlob) ==
    FALSE

\* downloadVideo: `if (cachedBlob)`; a Blob is truthy, null is not.
UseCached(cachedBlob) ==
    cachedBlob # Null

\* A write-back under the default variant.
SetArgsDefaultVariant(videoId, variant) ==
    <<videoId, "video">>

\* downloadVideo: the key of mediaCacheService.set(videoId, variant, blob).
SetArgs(videoId, variant) ==
    <<videoId, variant>>

\* A cascade that deletes the video variant alone.
DeleteArgsVideoOnly(videoId) ==
    <<videoId, "video">>

\* deleteVideo: mediaCacheService.delete(videoId), variant undefined.
DeleteArgs(videoId) ==
    <<videoId, "">>

\* delete: `if (variant)` takes the single delete, else the fan-out.
DeleteOp(variant) ==
    IF variant # "" THEN "delete" ELSE "deleteAll"

\* The downloadVideo of the service without cache, over the outcome of its
\* one client.get: the response's blob, or Null when the request failed.
PlainDownloadVideo(response) ==
    IF response # Null
    THEN [pc |-> "resolved", result |-> response, error |-> "none", fetches |-> 1]
    ELSE [pc |-> "rejected", result |-> Null, error |-> "network", fetches |-> 1]

\* -------------------------------------------------------------- Init
Init ==
    /\ db = "null"
    /\ initPromise = "null"
    /\ openReq = "none"
    /\ opens = 0
    /\ schemaSetups = 0
    /\ idbVersion = 0
    /\ storeNames = {}
    /\ media = {}
    /\ calls = [c \in Callers |-> IdleCall]
    /\ subs = [c \in Callers |-> [v \in VariantSet |-> "idle"]]
    /\ waiting = <<>>
    /\ requests = <<>>
    /\ contents = [k \in Ids \X VariantSet |-> Null]
    /\ api = [c \in Callers |-> IdleApi]

\* ----------------------------------------------------------- actions
\* The call of init() every method starts with.
InitCall ==
    IF ShouldOpen(db, initPromise)
    THEN /\ opens < MaxOpens
         /\ opens' = opens + 1
         /\ \E threw \in BOOLEAN :
               /\ initPromise' = IF threw THEN "rejected" ELSE "pending"
               /\ openReq' = IF threw THEN openReq ELSE "pending"
         /\ UNCHANGED <<db, schemaSetups, idbVersion, storeNames>>
    ELSE UNCHANGED conn

\* A method of the service is called; it runs up to `await this.init()`.
Enter(c, op, id, v, b) ==
    /\ calls[c].pc = "idle"
    /\ InitCall
    /\ calls' = [calls EXCEPT ![c] =
                    [IdleCall EXCEPT !.op = op, !.id = id, !.variant = v,
                                     !.blob = b, !.pc = "awaitInit",
                                     !.before = media,
                                     !.opened = ShouldOpen(db, initPromise)]]
    /\ waiting' = Append(waiting, Task(c, ""))
    /\ UNCHANGED <<media, subs, requests, contents>>

\* A caller other than SoraApiService calls a method.
Invoke(c, op, id, v, b) ==
    /\ api[c].pc = "idle"
    /\ Enter(c, op, id, v, b)
    /\ UNCHANGED api

Call(c, ids, blobs) ==
    \/ \E id \in ids, v \in VariantSet, b \in blobs : Invoke(c, "set", id, v, Some(b))
    \/ \E id \in ids, v \in VariantSet : Invoke(c, "get", id, v, Null)
    \/ \E id \in ids, v \in VariantSet : Invoke(c, "delete", id, v, Null)
    \/ \E id \in ids : Invoke(c, "deleteAll", id, "", Null)
    \/ Invoke(c, "clear", "", "", Null)
    \/ Invoke(c, "getStats", "", "", Null)

\* request.onupgradeneeded of indexedDB.open
OnUpgradeNeeded ==
    /\ ~MicrotasksRunnable
    /\ openReq = "pending"
    /\ idbVersion < DB_VERSION
    /\ openReq' = "upgraded"
    /\ idbVersion' = DB_VERSION
    /\ IF STORE_NAME \notin storeNames
       THEN /\ schemaSetups < MaxOpens
            /\ storeNames' = storeNames \cup {STORE_NAME}
            /\ schemaSetups' = schemaSetups + 1
       ELSE UNCHANGED <<storeNames, schemaSetups>>
    /\ UNCHANGED <<db, initPromise, opens, media, calls, subs, waiting, requests,
                   contents,
                   api>>

\* An open that hands out a handle on an emptied store.
OpenOnSuccessFreshStore ==
    /\ ~MicrotasksRunnable
    /\ \/ openReq = "upgraded"
       \/ openReq = "pending" /\ idbVersion >= DB_VERSION
    /\ db' = "open"
    /\ initPromise' = "fulfilled"
    /\ openReq' = "done"
    /\ media' = {}
    /\ UNCHANGED <<opens, schemaSetups, idbVersion, storeNames, calls, subs,
                   waiting, requests, contents, api>>

\* request.onsuccess of indexedDB.open
OpenOnSuccess ==
    /\ ~MicrotasksRunnable
    /\ \/ openReq = "upgraded"
       \/ openReq = "pending" /\ idbVersion >= DB_VERSION
    /\ db' = "open"
    /\ initPromise' = "fulfilled"
    /\ openReq' = "done"
    /\ UNCHANGED <<opens, schemaSetups, idbVersion, storeNames, media, calls, subs,
                   waiting, requests, contents,
                   api>>

\* An open request without onerror handler: the promise stays pending.
OpenOnErrorUnhandled ==
    /\ ~MicrotasksRunnable
    /\ openReq \in {"pending", "upgraded"}
    /\ openReq' = "done"
    /\ idbVersion' = IF openReq = "upgraded" THEN 0 ELSE idbVersion
    /\ storeNames' = IF openReq = "upgraded" THEN {} ELSE storeNames
    /\ UNCHANGED <<db, initPromise, opens, schemaSetups, media, calls, subs,
                   waiting, requests, contents, api>>

\* request.onerror of indexedDB.open; a failed upgrade is rolled back.
OpenOnError ==
    /\ ~MicrotasksRunnable
    /\ openReq \in {"pending", "upgraded"}
    /\ initPromise' = "rejected"
    /\ openReq' = "done"
    /\ idbVersion' = IF openReq = "upgraded" THEN 0 ELSE idbVersion
    /\ storeNames' = IF openReq = "upgraded" THEN {} ELSE storeNames
    /\ UNCHANGED <<db, opens, schemaSetups, media, calls, subs, waiting, requests,
                   contents,
                   api>>

\* The continuation of a method after `await this.init()` threw.
ResumeInitFailed ==
    /\ waiting # <<>>
    /\ initPromise = "rejected"
    /\ LET c == Head(waiting).c
       IN  calls' = [calls EXCEPT ![c] = Caught(calls[c], "init")]
    /\ waiting' = Tail(waiting)
    /\ UNCHANGED <<conn, media, subs, requests, contents, api>>

\* The continuation of set, get, delete(videoId, variant), clear or getStats
\* after init() resolved: the executor opens the transaction and issues the
\* request, either of which may throw.
ResumeRequest ==
    /\ waiting # <<>>
    /\ initPromise = "fulfilled"
    /\ Head(waiting).v = ""
    /\ LET c == Head(waiting).c
       IN  /\ calls[c].op # "deleteAll"
           /\ IF db # "open"
              THEN /\ calls' = [calls EXCEPT ![c] = Caught(calls[c], "init")]
                   /\ UNCHANGED requests
              ELSE \E threw \in BOOLEAN :
                     IF threw
                     THEN /\ calls' = [calls EXCEPT ![c] =
                                          ReturnedPromiseRejected(calls[c], "throw")]
                          /\ UNCHANGED requests
                     ELSE /\ calls' = [calls EXCEPT ![c].pc = "request"]
                          /\ requests' = Append(requests, Head(waiting))
    /\ waiting' = Tail(waiting)
    /\ UNCHANGED <<conn, media, subs, contents, api>>

\* The continuation of delete(videoId): the three this.delete(videoId, variant)
\* are called in turn, each running up to its own `await this.init()`.
ResumeDeleteAll ==
    /\ waiting # <<>>
    /\ initPromise = "fulfilled"
    /\ Head(waiting).v = ""
    /\ LET c == Head(waiting).c
       IN  /\ calls[c].op = "deleteAll"
           /\ IF db # "open"
              THEN /\ calls' = [calls EXCEPT ![c] = Caught(calls[c], "init")]
                   /\ waiting' = Tail(waiting)
                   /\ UNCHANGED subs
              ELSE /\ calls' = [calls EXCEPT ![c].pc = "awaitAll"]
                   /\ subs' = [subs EXCEPT ![c] =
                                  [v \in VariantSet |->
                                      IF v \in FanOutSet THEN "awaitInit" ELSE "idle"]]
                   /\ waiting' = Tail(waiting) \o
                                    [i \in 1..Len(FanOut) |-> Task(c, FanOut[i])]
    /\ UNCHANGED <<conn, media, requests, contents, api>>

\* The continuation of a this.delete(videoId, variant) of a fan-out.
ResumeSub ==
    /\ waiting # <<>>
    /\ initPromise = "fulfilled"
    /\ Head(waiting).v # ""
    /\ LET c == Head(waiting).c
           v == Head(waiting).v
       IN  \E threw \in BOOLEAN :
             LET ss == [subs EXCEPT ![c][v] = IF threw THEN "rejected" ELSE "request"]
             IN  /\ subs' = ss
                 /\ requests' = IF threw THEN requests
                                ELSE Append(requests, Head(waiting))
                 /\ calls' = SettleParents(calls, ss)
    /\ waiting' = Tail(waiting)
    /\ UNCHANGED <<conn, media, contents, api>>

Served(op) ==
    /\ ~MicrotasksRunnable
    /\ requests # <<>>
    /\ IF Head(requests).v = "" THEN calls[Head(requests).c].op = op
       ELSE op = "delete"
    /\ requests' = Tail(requests)

\* set: request.onsuccess of store.put
SetOnSuccess ==
    /\ Served("set")
    /\ LET c == Head(requests).c
           call == calls[c]
       IN  /\ media' = Put(media, CachedMedia(call.id, call.variant, call.blob[1]))
           /\ calls' = [calls EXCEPT ![c].pc = "resolved"]
           /\ contents' = [contents EXCEPT ![<<call.id, call.variant>>] = call.blob]
    /\ UNCHANGED <<conn, subs, waiting, api>>

\* set: request.onerror of store.put
SetOnError ==
    /\ Served("set")
    /\ LET c == Head(requests).c
       IN  calls' = [calls EXCEPT ![c] = ReturnedPromiseRejected(calls[c], "error")]
    /\ UNCHANGED <<conn, media, subs, waiting, contents, api>>

\* get: request.onsuccess of store.get
GetOnSuccess ==
    /\ Served("get")
    /\ LET c == Head(requests).c
           call == calls[c]
       IN  calls' = [calls EXCEPT ![c].pc = "resolved",
                                  ![c].result = Lookup(media, call.id, call.variant)]
    /\ UNCHANGED <<conn, media, subs, waiting, contents, api>>

\* get: request.onerror of store.get resolves with null
GetOnError ==
    /\ Served("get")
    /\ LET c == Head(requests).c
       IN  calls' = [calls EXCEPT ![c].pc = "resolved", ![c].result = Null,
                                  ![c].fault = "error"]
    /\ UNCHANGED <<conn, media, subs, waiting, contents, api>>

\* delete(videoId, variant): request.onsuccess of store.delete
DeleteOnSuccess ==
    /\ Served("delete")
    /\ LET c == Head(requests).c
           v == Head(requests).v
           variant == IF v = "" THEN calls[c].variant ELSE v
           ss == IF v = "" THEN subs ELSE [subs EXCEPT ![c][v] = "resolved"]
           cs == IF v = "" THEN [calls EXCEPT ![c].pc = "resolved"] ELSE calls
       IN  /\ media' = StoreDelete(media, GetCacheKey(calls[c].id, variant))
           /\ subs' = ss
           /\ calls' = SettleParents(cs, ss)
           /\ contents' = [contents EXCEPT ![<<calls[c].id, variant>>] = Null]
    /\ UNCHANGED <<conn, waiting, api>>

\* delete(videoId, variant): request.onerror of store.delete
DeleteOnError ==
    /\ Served("delete")
    /\ LET c == Head(requests).c
           v == Head(requests).v
           ss == IF v = "" THEN subs ELSE [subs EXCEPT ![c][v] = "rejected"]
           cs == IF v = ""
                 THEN [calls EXCEPT ![c] = ReturnedPromiseRejected(calls[c], "error")]
                 ELSE calls
       IN  /\ subs' = ss
           /\ calls' = SettleParents(cs, ss)
    /\ UNCHANGED <<conn, media, waiting, contents, api>>

\* clear: request.onsuccess of store.clear
ClearOnSuccess ==
    /\ Served("clear")
    /\ LET c == Head(requests).c
       IN  calls' = [calls EXCEPT ![c].pc = "resolved"]
    /\ media' = StoreClear(media)
    /\ contents' = [k \in Ids \X VariantSet |-> Null]
    /\ UNCHANGED <<conn, subs, waiting, api>>

\* clear: request.onerror of store.clear
ClearOnError ==
    /\ Served("clear")
    /\ LET c == Head(requests).c
       IN  calls' = [calls EXCEPT ![c] = ReturnedPromiseRejected(calls[c], "error")]
    /\ UNCHANGED <<conn, media, subs, waiting, contents, api>>

\* getStats: request.onsuccess of store.getAll
StatsOnSuccess ==
    /\ Served("getStats")
    /\ LET c == Head(requests).c
       IN  calls' = [calls EXCEPT ![c].pc = "resolved", ![c].stats = ScanStats(media)]
    /\ UNCHANGED <<conn, media, subs, waiting, contents, api>>

\* getStats: request.onerror of store.getAll resolves with zeros
StatsOnError ==
    /\ Served("getStats")
    /\ LET c == Head(requests).c
       IN  calls' = [calls EXCEPT ![c].pc = "resolved", ![c].stats = ZeroStats,
                                  ![c].fault = "error"]
    /\ UNCHANGED <<conn, media, subs, waiting, contents, api>>

\* The caller takes the outcome of its call; it may then call again.
Return(c) ==
    /\ api[c].pc = "idle"
    /\ Settled(calls[c])
    /\ \A v \in VariantSet : subs[c][v] \in {"idle", "resolved", "rejected"}
    /\ calls' = [calls EXCEPT ![c] = IdleCall]
    /\ subs' = [subs EXCEPT ![c] = [v \in VariantSet |-> "idle"]]
    /\ UNCHANGED <<conn, media, waiting, requests, contents, api>>

\* The page is reloaded while the service is quiet: the module is evaluated
\* again and a new MediaCacheService (no handle, no promise) stands over the
\* database the earlier one left on disk.
PageReload ==
    /\ AllIdle
    /\ \A c \in Callers : api[c].pc = "idle"
    /\ opens > 0
    /\ openReq \in {"none", "done"}
    /\ db' = "null"
    /\ initPromise' = "null"
    /\ openReq' = "none"
    /\ opens' = 0
    /\ schemaSetups' = 0
    /\ UNCHANGED <<idbVersion, storeNames, media, calls, subs, waiting, requests,
                   contents,
                   api>>

\* downloadVideo up to `await mediaCacheService.get(videoId, variant)`.
DownloadVideo(c, id, v) ==
    /\ api[c].pc = "idle"
    /\ Enter(c, "get", id, v, Null)
    /\ api' = [api EXCEPT ![c] =
                  [IdleApi EXCEPT !.op = "downloadVideo", !.id = id,
                                  !.variant = v, !.pc = "get", !.before = media]]

\* downloadVideo after get settled: a rejection of get rejects the call, a
\* cached blob is returned, and on null the request to the network is made.
DownloadAfterGet(c) ==
    /\ api[c].pc = "get"
    /\ Settled(calls[c])
    /\ ~InitWaitersRunnable
    /\ api' = [api EXCEPT ![c] =
                  IF calls[c].pc = "rejected"
                  THEN [@ EXCEPT !.pc = "rejected", !.error = "cache",
                                 !.readFault = calls[c].fault]
                  ELSE IF UseCached(calls[c].result)
                       THEN [@ EXCEPT !.pc = "resolved",
                                      !.cachedBlob = calls[c].result,
                                      !.result = calls[c].result,
                                      !.readFault = calls[c].fault]
                       ELSE [@ EXCEPT !.pc = "fetch",
                                      !.cachedBlob = calls[c].result,
                                      !.fetches = @ + 1,
                                      !.readFault = calls[c].fault]]
    /\ calls' = [calls EXCEPT ![c] = IdleCall]
    /\ UNCHANGED <<conn, media, subs, waiting, requests, contents>>

\* The response of client.get arrives: blob = response.data, and downloadVideo
\* runs up to `await mediaCacheService.set(videoId, variant, blob)`.
FetchSuccess(c, b) ==
    /\ api[c].pc = "fetch"
    /\ ~MicrotasksRunnable
    /\ LET a == SetArgs(api[c].id, api[c].variant)
       IN  Enter(c, "set", a[1], a[2], Some(b))
    /\ api' = [api EXCEPT ![c].pc = "set", ![c].blob = Some(b)]

\* A downloadVideo that caches a placeholder when client.get fails.
FetchErrorCachesPlaceholder(c) ==
    /\ api[c].pc = "fetch"
    /\ ~MicrotasksRunnable
    /\ Enter(c, "set", api[c].id, api[c].variant, Some(<<1>>))
    /\ api' = [api EXCEPT ![c].pc = "set", ![c].error = "network"]

\* client.get fails: downloadVideo rejects with the error of the request.
FetchError(c) ==
    /\ api[c].pc = "fetch"
    /\ ~MicrotasksRunnable
    /\ api' = [api EXCEPT ![c].pc = "rejected", ![c].error = "network"]
    /\ UNCHANGED <<conn, media, calls, subs, waiting, requests, contents>>

\* downloadVideo after set settled: `return blob`, or the rejection of set.
DownloadAfterSet(c) ==
    /\ api[c].pc = "set"
    /\ Settled(calls[c])
    /\ ~InitWaitersRunnable
    /\ api' = [api EXCEPT ![c] =
                  IF calls[c].pc = "rejected"
                  THEN [@ EXCEPT !.pc = "rejected", !.error = "cache"]
                  ELSE [@ EXCEPT !.pc = "resolved", !.result = api[c].blob]]
    /\ UNCHANGED <<conn, media, calls, subs, waiting, requests, contents>>

\* deleteVideo up to `await this.client.delete(...)`.
DeleteVideo(c, id) ==
    /\ api[c].pc = "idle"
    /\ calls[c].pc = "idle"
    /\ api' = [api EXCEPT ![c] =
                  [IdleApi EXCEPT !.op = "deleteVideo", !.id = id,
                                  !.pc = "remote", !.before = media]]
    /\ UNCHANGED <<conn, media, calls, subs, waiting, requests, contents>>

\* The remote delete succeeded: deleteVideo runs up to
\* `await mediaCacheService.delete(videoId)`.
RemoteDeleteSuccess(c) ==
    /\ api[c].pc = "remote"
    /\ ~MicrotasksRunnable
    /\ LET a == DeleteArgs(api[c].id)
       IN  Enter(c, DeleteOp(a[2]), a[1], a[2], Null)
    /\ api' = [api EXCEPT ![c].pc = "cacheDelete"]

\* A deleteVideo that deletes from the cache also when the remote delete
\* failed.
RemoteDeleteErrorThenCache(c) ==
    /\ api[c].pc = "remote"
    /\ ~MicrotasksRunnable
    /\ Enter(c, "deleteAll", api[c].id, "", Null)
    /\ api' = [api EXCEPT ![c].pc = "cacheDelete", ![c].error = "network"]

\* The remote delete failed: deleteVideo rejects before it reaches the cache.
RemoteDeleteError(c) ==
    /\ api[c].pc = "remote"
    /\ ~MicrotasksRunnable
    /\ api' = [api EXCEPT ![c].pc = "rejected", ![c].error = "network"]
    /\ UNCHANGED <<conn, media, calls, subs, waiting, requests, contents>>

\* deleteVideo after the delete of the cache settled.
DeleteVideoAfterCache(c) ==
    /\ api[c].pc = "cacheDelete"
    /\ Settled(calls[c])
    /\ ~InitWaitersRunnable
    /\ api' = [api EXCEPT ![c] =
                  IF calls[c].pc = "rejected"
                  THEN [@ EXCEPT !.pc = "rejected", !.error = "cache"]
                  ELSE [@ EXCEPT !.pc = "resolved"]]
    /\ UNCHANGED <<conn, media, calls, subs, waiting, requests, contents>>

\* The caller of downloadVideo or deleteVideo takes the outcome; the slot and
\* its fan-out are free once the deletes of the fan-out have settled too.
ApiReturn(c) ==
    /\ ApiSettled(api[c])
    /\ \A v \in VariantSet : subs[c][v] \in {"idle", "resolved", "rejected"}
    /\ api' = [api EXCEPT ![c] = IdleApi]
    /\ calls' = [calls EXCEPT ![c] = IdleCall]
    /\ subs' = [subs EXCEPT ![c] = [v \in VariantSet |-> "idle"]]
    /\ UNCHANGED <<conn, media, waiting, requests, contents>>

Service ==
    \/ OnUpgradeNeeded
    \/ OpenOnSuccess
    \/ OpenOnError
    \/ ResumeInitFailed
    \/ ResumeRequest
    \/ ResumeDeleteAll
    \/ ResumeSub
    \/ SetOnSuccess
    \/ SetOnError
    \/ GetOnSuccess
    \/ GetOnError
    \/ DeleteOnSuccess
    \/ DeleteOnError
    \/ ClearOnSuccess
    \/ ClearOnError
    \/ StatsOnSuccess
    \/ StatsOnError
    \/ \E c \in Callers : Return(c)

\* One caller at a time: each call is awaited before the next is made.
SeqNext ==
    \/ \E c \in Callers : AllIdle /\ Call(c, Ids, Blobs)
    \/ Service

SeqSpec == Init /\ [][SeqNext]_vars

\* The steps of the calls of SoraApiService in flight.
ApiService(blobs) ==
    \/ \E c \in Callers : DownloadAfterGet(c)
    \/ \E c \in Callers, b \in blobs : FetchSuccess(c, b)
    \/ \E c \in Callers : FetchError(c)
    \/ \E c \in Callers : DownloadAfterSet(c)
    \/ \E c \in Callers : RemoteDeleteSuccess(c)
    \/ \E c \in Callers : RemoteDeleteError(c)
    \/ \E c \in Callers : DeleteVideoAfterCache(c)
    \/ \E c \in Callers : ApiReturn(c)

\* The smaller inputs of the specifications below.
FewIds == {"vid_1"}
FewBlobs == {<<1>>}
FewVariants == {"video", "thumbnail"}

\* Callers overlap while the connection is being established: any of them
\* may call as long as the service holds no handle, and the calls then run on.
InitNext ==
    \/ \E c \in Callers : db = "null" /\ Call(c, FewIds, FewBlobs)
    \/ Service

InitSpec == Init /\ [][InitNext]_vars

\* One caller at a time, over page reloads.
LifeNext ==
    \/ \E c \in Callers : AllIdle /\ Call(c, FewIds, FewBlobs)
    \/ Service
    \/ PageReload

LifeSpec == Init /\ [][LifeNext]_vars

\* The life of an instance over page reloads: one caller at a time, and
\* readers that call while the open another caller started is pending.
OpenNext ==
    \/ \E c \in Callers : AllIdle /\ Call(c, FewIds, FewBlobs)
    \/ \E c \in Callers, id \in FewIds :
          initPromise = "pending" /\ Invoke(c, "get", id, "video", Null)
    \/ Service
    \/ PageReload

OpenSpec == Init /\ [][OpenNext]_vars

\* The steps the browser takes by itself: the events of the open request and
\* of the storage requests, and the continuations of the calls.
Progress ==
    \/ OnUpgradeNeeded
    \/ OpenOnSuccess
    \/ OpenOnError
    \/ ResumeInitFailed
    \/ ResumeRequest
    \/ ResumeDeleteAll
    \/ ResumeSub
    \/ SetOnSuccess
    \/ SetOnError
    \/ GetOnSuccess
    \/ GetOnError
    \/ DeleteOnSuccess
    \/ DeleteOnError
    \/ ClearOnSuccess
    \/ ClearOnError
    \/ StatsOnSuccess
    \/ StatsOnError

\* OpenSpec with an event loop that keeps running: a pending open request
\* fires success or error, a request with the engine fires success or error,
\* and a continuation that can run does.
FairOpenSpec == OpenSpec /\ WF_vars(Progress)

\* Callers that do not await each other: a caller calls while no caller of
\* higher number has a call in flight and takes its outcome once the callers
\* of lower number have taken theirs, so of two calls in flight the one of the
\* caller with the higher number was made later.
MayCall(c) == \A d \in Callers : d > c => calls[d].pc = "idle" /\ api[d].pc = "idle"
MayReturn(c) == \A d \in Callers : d < c => calls[d].pc = "idle" /\ api[d].pc = "idle"

\* Sets of one resource that race, on a connection that is established or
\* being established.
RaceNext ==
    \/ \E c \in Callers, id \in FewIds, v \in FewVariants, b \in Blobs :
          MayCall(c) /\ Invoke(c, "set", id, v, Some(b))
    \/ OnUpgradeNeeded
    \/ OpenOnSuccess
    \/ OpenOnError
    \/ ResumeInitFailed
    \/ ResumeRequest
    \/ SetOnSuccess
    \/ SetOnError
    \/ \E c \in Callers : MayReturn(c) /\ Return(c)

RaceSpec == Init /\ [][RaceNext]_vars

\* The application's use of the cache: downloadVideo calls and at most one
\* deleteVideo at a time, in flight together, none awaiting another.
FlightNext ==
    \/ \E c \in Callers, id \in FewIds :
          MayCall(c) /\ DownloadVideo(c, id, "video")
    \/ \E c \in Callers, id \in FewIds :
          /\ MayCall(c)
          /\ \A d \in Callers : api[d].op # "deleteVideo"
          /\ DeleteVideo(c, id)
    \/ OnUpgradeNeeded
    \/ OpenOnSuccess
    \/ OpenOnError
    \/ ResumeInitFailed
    \/ ResumeRequest
    \/ ResumeDeleteAll
    \/ ResumeSub
    \/ SetOnSuccess
    \/ SetOnError
    \/ GetOnSuccess
    \/ GetOnError
    \/ DeleteOnSuccess
    \/ DeleteOnError
    \/ \E c \in Callers : DownloadAfterGet(c)
    \/ \E c \in Callers, b \in Blobs : FetchSuccess(c, b)
    \/ \E c \in Callers : FetchError(c)
    \/ \E c \in Callers : DownloadAfterSet(c)
    \/ \E c \in Callers : RemoteDeleteSuccess(c)
    \/ \E c \in Callers : RemoteDeleteError(c)
    \/ \E c \in Callers : DeleteVideoAfterCache(c)
    \/ \E c \in Callers : MayReturn(c) /\ ApiReturn(c)

FlightSpec == Init /\ [][FlightNext]_vars

\* No call of the cache and no call of SoraApiService is in flight.
Quiet == AllIdle /\ \A c \in Callers : api[c].pc = "idle"

\* One caller at a time calls downloadVideo, deleteVideo or the cache itself.
ApiNext ==
    \/ \E c \in Callers : Quiet /\ Call(c, FewIds, Blobs)
    \/ \E c \in Callers, id \in FewIds, v \in VariantSet :
          Quiet /\ DownloadVideo(c, id, v)
    \/ \E c \in Callers, id \in FewIds : Quiet /\ DeleteVideo(c, id)
    \/ Service
    \/ ApiService(Blobs)

ApiSpec == Init /\ [][ApiNext]_vars

\* ------------------------------------------------------------ claims
Key(call) == <<call.id, call.variant>>
Failed(call) == call.fault \in {"throw", "error"}
TimesIn(seq, t) == Cardinality({i \in 1..Len(seq) : seq[i] = t})

\* C1: set(id, v, blob) resolves and never rejects when the write fails (the
\* put request fires its error event, or opening the transaction or issuing
\* the put throws); and if the key had no entry before the failed write, a get
\* of that key afterwards reads absent.
C1_SetAbsorbsWriteFailure ==
    \A c \in Callers :
        calls[c].op = "set" /\ Settled(calls[c]) /\ Failed(calls[c]) =>
            /\ calls[c].pc = "resolved"
            /\ Lookup(calls[c].before, calls[c].id, calls[c].variant) = Null =>
                   Lookup(media, calls[c].id, calls[c].variant) = Null

\* C2: get(id, v) never rejects: on initialization failure, on a throw while
\* the read transaction is opened and on the error event of the read request
\* it resolves to absent (null).
C2_GetNeverRejects ==
    \A c \in Callers :
        calls[c].op = "get" /\ Settled(calls[c]) =>
            /\ calls[c].pc = "resolved"
            /\ calls[c].fault # "none" => calls[c].result = Null

\* C3: delete(id, v) with a variant given, and clear(), never reject: when
\* the delete or clear request fails the call still resolves.
C3_DeleteAndClearNeverReject ==
    \A c \in Callers :
        calls[c].op \in {"delete", "clear"} /\ Settled(calls[c])
            /\ calls[c].fault = "error" =>
            calls[c].pc = "resolved"

\* C4: for calls made by several callers before the connection is
\* established, indexedDB.open is called exactly once and the object store is
\* created at most once; every caller waits on that one initialization (none
\* goes on without the handle), and once the open has succeeded no call is
\* dropped: each is queued to continue or has its request with the engine,
\* and none is turned away as uninitialized.
C4_SingleSharedInitialization ==
    /\ opens <= 1
    /\ schemaSetups <= 1
    /\ (initPromise # "null") <=> (opens = 1)
    /\ \A c \in Callers :
          /\ calls[c].pc = "awaitInit" => TimesIn(waiting, Task(c, "")) = 1
          /\ calls[c].pc \in {"request", "awaitAll"} => db = "open"
          /\ calls[c].pc = "request" => TimesIn(requests, Task(c, "")) = 1
          /\ db = "open" => calls[c].fault # "init"
          /\ \A v \in VariantSet :
                /\ subs[c][v] = "awaitInit" => TimesIn(waiting, Task(c, v)) = 1
                /\ subs[c][v] = "request" => TimesIn(requests, Task(c, v)) = 1

\* C4's case: every caller called before the connection was there, the one
\* open succeeded, and every call was carried out.
C4_Witness ==
    /\ db = "open"
    /\ opens = 1
    /\ schemaSetups = 1
    /\ \A c \in Callers : calls[c].pc = "resolved" /\ calls[c].fault = "none"
    /\ \E c \in Callers : calls[c].op = "set" /\ Lookup(media, calls[c].id,
                                                        calls[c].variant) = calls[c].blob

\* C5: once the open has failed, for the rest of the life of the instance
\* (until a page reload makes a new one) the handle stays unset, no step
\* changes the stored records, no call rejects, every get resolves to null
\* and every getStats to count 0 and size 0.
C5_FailedOpenIsPermanentMiss ==
    [][initPromise = "rejected" =>
          /\ \/ initPromise' = "rejected" /\ db' = "null" /\ opens' = opens
             \/ AllIdle /\ initPromise' = "null"
          /\ media' = media
          /\ \A c \in Callers :
                /\ calls'[c].pc # "rejected"
                /\ Settled(calls'[c]) =>
                      /\ calls'[c].fault = "init"
                      /\ calls'[c].result = Null
                      /\ calls'[c].stats = ZeroStats]_vars

\* C5's case: the open of this instance failed over a database that holds an
\* entry, and a set has resolved since without storing anything.
C5_Witness ==
    /\ initPromise = "rejected"
    /\ media # {}
    /\ \E c \in Callers :
          /\ calls[c].op = "set"
          /\ calls[c].pc = "resolved"
          /\ calls[c].fault = "init"
          /\ media = calls[c].before

\* C6: with working storage, a get(id, v) that follows a set(id, v, blob),
\* with no set, delete or clear of that key in between, returns exactly the
\* blob that was stored.
C6_WriteThenRead ==
    \A c \in Callers :
        /\ calls[c].op = "get"
        /\ calls[c].pc = "resolved"
        /\ calls[c].fault = "none"
        /\ contents[Key(calls[c])] # Null
        => calls[c].result = contents[Key(calls[c])]

\* C6's case: a get has returned the blob a set stored.
C6_Witness ==
    \E c \in Callers :
        /\ calls[c].op = "get"
        /\ calls[c].pc = "resolved"
        /\ calls[c].fault = "none"
        /\ calls[c].result = Some(<<2, 3>>)
        /\ contents[Key(calls[c])] = Some(<<2, 3>>)

\* C7: a set(id, v, B) over an entry (id, v) -> A leaves B as what get(id, v)
\* reads and one record for the key: getStats counts as many entries as
\* before and its size differs from before by size(B) - size(A).
C7_Overwrite ==
    \A c \in Callers :
        calls[c].op = "set" /\ calls[c].pc = "resolved" /\ calls[c].fault = "none" =>
            LET old == Lookup(calls[c].before, calls[c].id, calls[c].variant)
                was == ScanStats(calls[c].before)
                now == ScanStats(media)
            IN  /\ Lookup(media, calls[c].id, calls[c].variant) = calls[c].blob
                /\ Cardinality({r \in media :
                       r.id = GetCacheKey(calls[c].id, calls[c].variant)}) = 1
                /\ old # Null =>
                      /\ now.count = was.count
                      /\ now.size = was.size - BlobSize(old[1])
                                       + BlobSize(calls[c].blob[1])
                /\ old = Null =>
                      /\ now.count = was.count + 1
                      /\ now.size = was.size + BlobSize(calls[c].blob[1])

\* C7's case: a set has resolved over an entry that held another blob.
C7_Witness ==
    \E c \in Callers :
        /\ calls[c].op = "set"
        /\ calls[c].pc = "resolved"
        /\ calls[c].fault = "none"
        /\ Lookup(calls[c].before, calls[c].id, calls[c].variant) = Some(<<1>>)
        /\ calls[c].blob = Some(<<2, 3>>)
        /\ ScanStats(media).size = ScanStats(calls[c].before).size + 1

\* C8: with working storage, once delete(id) without a variant has resolved,
\* get(id, v) reads absent for every variant v.
C8_FanOutDelete ==
    \A c \in Callers :
        calls[c].op = "deleteAll" /\ calls[c].pc = "resolved"
            /\ calls[c].fault = "none" =>
            \A v \in VariantSet : Lookup(media, calls[c].id, v) = Null

\* C8's case: delete(id) has resolved and id had entries under all three
\* variants when it was called.
C8_Witness ==
    \E c \in Callers :
        /\ calls[c].op = "deleteAll"
        /\ calls[c].pc = "resolved"
        /\ calls[c].fault = "none"
        /\ \A v \in VariantSet : Lookup(calls[c].before, calls[c].id, v) # Null
        /\ \A v \in VariantSet : Lookup(media, calls[c].id, v) = Null

\* C9: in delete(id) without a variant, when the delete of one variant fails
\* the deletes of the other variants are still issued and, once served,
\* their entries are gone; the call itself does not reject.
C9_FanOutIndependent ==
    \A c \in Callers :
        calls[c].op = "deleteAll" =>
            /\ calls[c].pc # "rejected"
            /\ \A v \in VariantSet :
                  subs[c][v] = "rejected" =>
                      \A w \in VariantSet \ {v} :
                          /\ subs[c][w] # "idle"
                          /\ subs[c][w] = "request" =>
                                TimesIn(requests, Task(c, w)) = 1
                          /\ subs[c][w] = "resolved" =>
                                Lookup(media, calls[c].id, w) = Null

\* C9's case: of three entries of id, the delete of one failed and it is
\* still stored, the other two are gone, and delete(id) has resolved.
C9_Witness ==
    \E c \in Callers :
        /\ calls[c].op = "deleteAll"
        /\ calls[c].pc = "resolved"
        /\ \A v \in VariantSet : Lookup(calls[c].before, calls[c].id, v) # Null
        /\ \E v \in VariantSet :
              /\ subs[c][v] = "rejected"
              /\ Lookup(media, calls[c].id, v) # Null
              /\ \A w \in VariantSet \ {v} :
                    /\ subs[c][w] = "resolved"
                    /\ Lookup(media, calls[c].id, w) = Null

\* C10: a delete(id, v) served by working storage resolves whether or not
\* the key has an entry; on a key without entry it leaves every record as it
\* was, and after it the key has no entry, so that the same delete made again
\* leaves the store as the first left it.
C10_IdempotentDelete ==
    \A c \in Callers :
        calls[c].op = "delete" /\ Settled(calls[c]) /\ calls[c].fault = "none" =>
            /\ calls[c].pc = "resolved"
            /\ Lookup(calls[c].before, calls[c].id, calls[c].variant) = Null =>
                   media = calls[c].before
            /\ Lookup(media, calls[c].id, calls[c].variant) = Null
            /\ StoreDelete(media, GetCacheKey(calls[c].id, calls[c].variant)) = media

\* C10's case: a delete of a key without entry has resolved on a store that
\* holds other entries.
C10_Witness ==
    \E c \in Callers :
        /\ calls[c].op = "delete"
        /\ calls[c].pc = "resolved"
        /\ calls[c].fault = "none"
        /\ Lookup(calls[c].before, calls[c].id, calls[c].variant) = Null
        /\ calls[c].before # {}
        /\ media = calls[c].before

\* The keys the callers know to hold a blob, and the bytes they hold.
Present == {k \in DOMAIN contents : contents[k] # Null}

RECURSIVE HeldBytes(_)
HeldBytes(keys) ==
    IF keys = {} THEN 0
    ELSE LET k == CHOOSE x \in keys : TRUE
         IN  BlobSize(contents[k][1]) + HeldBytes(keys \ {k})

OtherKeys(call) == (Ids \X VariantSet) \ {Key(call)}

\* C11: after any sequence of set, delete and clear calls, a getStats served
\* by working storage returns as count the number of keys that hold a blob
\* and as size the sum of the sizes of those blobs; after a clear() that
\* succeeded the scan gives count 0 and size 0 and get reads absent for
\* every key.
C11_StatsAccuracy ==
    \A c \in Callers :
        /\ calls[c].op = "getStats" /\ calls[c].pc = "resolved"
              /\ calls[c].fault = "none" =>
              /\ calls[c].stats.count = Cardinality(Present)
              /\ calls[c].stats.size = HeldBytes(Present)
        /\ calls[c].op = "clear" /\ calls[c].pc = "resolved"
              /\ calls[c].fault = "none" =>
              /\ ScanStats(media) = ZeroStats
              /\ \A k \in Ids \X VariantSet : Lookup(media, k[1], k[2]) = Null

\* C11's case: getStats has returned count 2 and size 3 over two entries of
\* sizes 1 and 2.
C11_Witness ==
    \E c \in Callers :
        /\ calls[c].op = "getStats"
        /\ calls[c].pc = "resolved"
        /\ calls[c].fault = "none"
        /\ calls[c].stats = [count |-> 2, size |-> 3]
        /\ Cardinality(Present) = 2

\* C12: getStats never rejects: on an empty store it returns count 0 and
\* size 0, and on initialization failure, on a throw while the transaction
\* is opened and on the error event of the getAll request it resolves to
\* count 0 and size 0.
C12_StatsNeverRejects ==
    \A c \in Callers :
        calls[c].op = "getStats" /\ Settled(calls[c]) =>
            /\ calls[c].pc = "resolved"
            /\ (calls[c].fault # "none" \/ calls[c].before = {}) =>
                   calls[c].stats = ZeroStats

\* C13: a get(id, v) of a key that was never written, or was written and then
\* removed by delete or clear, resolves to null and not to an error.
C13_MissIsAbsent ==
    \A c \in Callers :
        /\ calls[c].op = "get"
        /\ Settled(calls[c])
        /\ contents[Key(calls[c])] = Null
        => calls[c].pc = "resolved" /\ calls[c].result = Null

\* C14: set(id, v, blob) changes the entry of (id, v) alone: for every other
\* variant of id and for every other id, get reads after the set what it
\* read before.
C14_SetFrame ==
    \A c \in Callers :
        calls[c].op = "set" /\ Settled(calls[c]) =>
            \A k \in OtherKeys(calls[c]) :
                Lookup(media, k[1], k[2]) = Lookup(calls[c].before, k[1], k[2])

\* C14's case: a set has stored its blob while another variant of the same id
\* and another id held blobs, and they hold them still.
C14_Witness ==
    \E c \in Callers :
        /\ calls[c].op = "set"
        /\ calls[c].pc = "resolved"
        /\ calls[c].fault = "none"
        /\ Lookup(media, calls[c].id, calls[c].variant) = calls[c].blob
        /\ \E k \in OtherKeys(calls[c]) :
              k[1] = calls[c].id /\ Lookup(media, k[1], k[2]) # Null
        /\ \E k \in OtherKeys(calls[c]) :
              k[1] # calls[c].id /\ k[2] = calls[c].variant
                 /\ Lookup(media, k[1], k[2]) # Null

\* C15: delete(id, v) with a variant removes the entry of (id, v) alone: the
\* entries of the other variants of id and of every other id are unchanged;
\* delete(id) without a variant leaves the entries of every other id
\* unchanged.
C15_DeleteFrame ==
    \A c \in Callers :
        /\ calls[c].op = "delete" /\ Settled(calls[c]) =>
              /\ \A k \in OtherKeys(calls[c]) :
                    Lookup(media, k[1], k[2]) = Lookup(calls[c].before, k[1], k[2])
              /\ {r \in media : r.id # GetCacheKey(calls[c].id, calls[c].variant)}
                    = {r \in calls[c].before :
                          r.id # GetCacheKey(calls[c].id, calls[c].variant)}
        /\ calls[c].op = "deleteAll" =>
              \A k \in Ids \X VariantSet :
                  k[1] # calls[c].id =>
                      Lookup(media, k[1], k[2]) = Lookup(calls[c].before, k[1], k[2])

\* C15's case: a delete(id, v) has removed its entry while another variant of
\* id and another id held blobs, and they hold them still.
C15_Witness ==
    \E c \in Callers :
        /\ calls[c].op = "delete"
        /\ calls[c].pc = "resolved"
        /\ calls[c].fault = "none"
        /\ Lookup(calls[c].before, calls[c].id, calls[c].variant) # Null
        /\ Lookup(media, calls[c].id, calls[c].variant) = Null
        /\ \E k \in OtherKeys(calls[c]) :
              k[1] = calls[c].id /\ Lookup(media, k[1], k[2]) # Null
        /\ \E k \in OtherKeys(calls[c]) :
              k[1] # calls[c].id /\ Lookup(media, k[1], k[2]) # Null

\* The callers with a downloadVideo in flight, and the key of an API call.
Downloads == {c \in Callers : api[c].op = "downloadVideo"}

ApiKey(a) == <<a.id, a.variant>>

\* C16: downloadVideo(id, v) makes no request to the network when the cache
\* holds an entry of (id, v) and the read is served: it returns the stored
\* blob; a request to the network is made only after get(id, v) returned
\* null.
C16_HitMakesNoRequest ==
    \A c \in Downloads :
        /\ api[c].pc = "get" => api[c].fetches = 0
        /\ api[c].fetches > 0 => api[c].cachedBlob = Null
        /\ /\ api[c].pc # "get"
           /\ api[c].readFault = "none"
           /\ Lookup(api[c].before, api[c].id, api[c].variant) # Null
           => /\ api[c].fetches = 0
              /\ api[c].pc = "resolved"
              /\ api[c].result = Lookup(api[c].before, api[c].id, api[c].variant)

\* C16's case: a downloadVideo has returned the blob the cache held, without
\* a request to the network.
C16_Witness ==
    \E c \in Downloads :
        /\ api[c].pc = "resolved"
        /\ api[c].fetches = 0
        /\ api[c].result = Some(<<2, 3>>)
        /\ Lookup(media, api[c].id, api[c].variant) = Some(<<2, 3>>)

\* C17: when the cache has no entry of (id, v), the request to the network
\* succeeds and storage works, downloadVideo returns the fetched blob, and
\* when it resolves the cache holds that blob under (id, v); a downloadVideo
\* of a key written earlier, with no delete or clear since, makes no request
\* to the network.
C17_MissWritesBack ==
    \A c \in Downloads :
        /\ /\ ApiSettled(api[c])
           /\ api[c].readFault = "none"
           /\ api[c].blob # Null
           /\ calls[c].fault = "none"
           => /\ api[c].pc = "resolved"
              /\ api[c].result = api[c].blob
              /\ Lookup(media, api[c].id, api[c].variant) = api[c].blob
              /\ contents[ApiKey(api[c])] = api[c].blob
        /\ /\ api[c].pc # "get"
           /\ api[c].readFault = "none"
           /\ api[c].blob = Null
           /\ contents[ApiKey(api[c])] # Null
           => /\ api[c].fetches = 0
              /\ api[c].result = contents[ApiKey(api[c])]

\* C17's case: a downloadVideo of a thumbnail has missed, fetched, written the
\* blob back and resolved with it.
C17_Witness ==
    \E c \in Downloads :
        /\ api[c].pc = "resolved"
        /\ api[c].variant = "thumbnail"
        /\ api[c].fetches = 1
        /\ api[c].readFault = "none"
        /\ calls[c].op = "set" /\ calls[c].fault = "none"
        /\ api[c].result = api[c].blob
        /\ Lookup(media, api[c].id, api[c].variant) = api[c].blob

\* C18: a failed write to the cache never fails the download: when the
\* request to the network succeeded, downloadVideo resolves with the fetched
\* blob whether or not the write to the cache succeeded.
C18_WriteFailureAbsorbed ==
    \A c \in Downloads :
        ApiSettled(api[c]) /\ api[c].blob # Null =>
            api[c].pc = "resolved" /\ api[c].result = api[c].blob

\* C19: after deleteVideo(id) has completed with working storage, no variant
\* of id remains in the cache: get(id, v) reads null for every variant v.
C19_DeleteCascades ==
    \A c \in Callers :
        /\ api[c].op = "deleteVideo"
        /\ api[c].pc = "resolved"
        /\ calls[c].fault = "none"
        => \A v \in VariantSet :
              /\ Lookup(media, api[c].id, v) = Null
              /\ contents[<<api[c].id, v>>] = Null

\* C19's case: a deleteVideo has resolved on a cache that held the thumbnail
\* and the spritesheet of its id, and holds them no more.
C19_Witness ==
    \E c \in Callers :
        /\ api[c].op = "deleteVideo"
        /\ api[c].pc = "resolved"
        /\ calls[c].fault = "none"
        /\ Lookup(api[c].before, api[c].id, "thumbnail") # Null
        /\ Lookup(api[c].before, api[c].id, "spritesheet") # Null
        /\ \A v \in VariantSet : Lookup(media, api[c].id, v) = Null

\* C20: when initialization of the cache failed, downloadVideo behaves as the
\* downloadVideo of the service without cache: it makes exactly one request
\* to the network and returns its blob or its error, writes nothing, and is
\* never left waiting on the cache.
C20_UnavailableCacheIsTransparent ==
    \A c \in Downloads :
        initPromise = "rejected" =>
            /\ media = api[c].before
            /\ api[c].pc \in {"get", "set"} =>
                  \/ Settled(calls[c])
                  \/ \E i \in 1..Len(waiting) : waiting[i] = Task(c, "")
            /\ api[c].pc = "get" => api[c].fetches = 0
            /\ api[c].pc \in {"fetch", "set"} => api[c].fetches = 1
            /\ ApiSettled(api[c]) =>
                  [pc |-> api[c].pc, result |-> api[c].result,
                   error |-> api[c].error, fetches |-> api[c].fetches]
                      = PlainDownloadVideo(api[c].blob)

\* C20's case: after initialization failed a downloadVideo has resolved with
\* the blob of its one request, its get and its set caught by the service.
C20_Witness ==
    \E c \in Downloads :
        /\ initPromise = "rejected"
        /\ api[c].pc = "resolved"
        /\ api[c].readFault = "init"
        /\ calls[c].op = "set" /\ calls[c].fault = "init"
        /\ api[c].fetches = 1
        /\ api[c].result = api[c].blob

\* A method of the service is entered by caller c in this step.
Entered(c) == calls[c].pc = "idle" /\ calls'[c].pc = "awaitInit"

\* The step is a page reload: a new instance replaces the quiet old one.
Reloaded == AllIdle /\ opens > 0 /\ opens' = 0

\* C21: the connection is opened lazily and at most once per instance of the
\* service: a new instance has made no open, the first operation makes it,
\* and no later operation makes a second one, whether the first open
\* succeeded, failed or is pending; a handle once set is never reset or
\* replaced while the instance lives.
C21_OpenedLazilyOnce ==
    [][/\ opens' <= 1
       /\ opens' = 0 => db' = "null" /\ initPromise' = "null" /\ openReq' = "none"
       /\ opens' # opens =>
             \/ Reloaded
             \/ opens = 0 /\ opens' = 1 /\ \E c \in Callers : Entered(c)
       /\ (opens = 0 /\ \E c \in Callers : Entered(c)) => opens' = 1
       /\ db = "open" => db' = "open" \/ Reloaded]_vars

\* C21's case: a second caller has called while the open of the first is
\* pending, and the instance has made one open.
C21_Witness ==
    /\ initPromise = "pending"
    /\ opens = 1
    /\ \A c \in Callers : calls[c].pc = "awaitInit"

\* What a call that was served reads of the entries the callers hold.
ReadsWhatIsHeld(call) ==
    /\ call.op = "get" => call.result = contents[Key(call)]
    /\ call.op = "getStats" =>
          call.stats = [count |-> Cardinality(Present), size |-> HeldBytes(Present)]

\* The first call of an instance (the one whose init() made the open) was
\* served and read what the callers hold.
FirstCallReadsWhatIsHeld ==
    \A c \in Callers :
        calls[c].opened /\ calls[c].pc = "resolved" /\ calls[c].fault = "none" =>
            ReadsWhatIsHeld(calls[c])

\* C22: entries survive a page reload: a new instance (no handle, no
\* initialization promise) over a database that holds entries returns them
\* from get and counts them in getStats; the reload and the initialization
\* remove no entry, and the object store is created only in a database that
\* did not exist.
C22_EntriesSurviveReload ==
    [][/\ (db' # db \/ openReq' # openReq \/ initPromise' # initPromise) =>
              media' = media /\ contents' = contents
       /\ schemaSetups' > schemaSetups => idbVersion = 0 /\ media = {}
       /\ FirstCallReadsWhatIsHeld']_vars

\* C22's case: the first call of an instance that found the database of an
\* earlier one (it created no store) is a get, and it has returned the blob
\* the earlier instance stored.
C22_Witness ==
    /\ schemaSetups = 0
    /\ opens = 1
    /\ \E c \in Callers :
          /\ calls[c].opened
          /\ calls[c].op = "get"
          /\ calls[c].pc = "resolved"
          /\ calls[c].result = Some(<<1>>)

\* The callers whose set of key k is in flight or settled and not yet taken.
Setters(k) == {c \in Callers : calls[c].op = "set" /\ Key(calls[c]) = k}

Last(cs) == CHOOSE c \in cs : \A d \in cs : d <= c

\* C23: sets of one key made one after the other without awaiting (set(id, v,
\* A), then set(id, v, B)) leave the blob of the last one as the entry once
\* all of them have resolved after their writes were served, whether they
\* were called on an established connection or during initialization; the
\* store never holds two records of one key.
C23_LastWriteWins ==
    \A k \in Ids \X VariantSet :
        /\ Cardinality({r \in media : r.id = GetCacheKey(k[1], k[2])}) <= 1
        /\ /\ Setters(k) # {}
           /\ \A c \in Setters(k) : calls[c].pc = "resolved" /\ calls[c].fault = "none"
           => Lookup(media, k[1], k[2]) = calls[Last(Setters(k))].blob

\* C23's case: set(id, v, A), whose init() made the open, and set(id, v, B)
\* made after it have both resolved, and B is the entry.
C23_Witness ==
    \E k \in Ids \X VariantSet :
        /\ Setters(k) = {1, 2}
        /\ \A c \in Setters(k) : calls[c].pc = "resolved" /\ calls[c].fault = "none"
        /\ calls[1].opened
        /\ calls[1].blob = Some(<<2, 3>>)
        /\ calls[2].blob = Some(<<1>>)
        /\ Lookup(media, k[1], k[2]) = Some(<<1>>)

\* C24: a downloadVideo(id, v) that missed the cache and is fetching when
\* deleteVideo(id) completes puts no entry of id back: when a deleteVideo(id)
\* whose deletes were served and the downloadVideo calls made before it have
\* all settled, and no call was made after it, the cache holds no entry of id.
C24_DeleteWinsOverDownload ==
    \A c \in Callers :
        /\ api[c].op = "deleteVideo"
        /\ api[c].pc = "resolved"
        /\ calls[c].fault = "none"
        /\ \A d \in Callers : d > c => api[d].op = "none"
        /\ \A d \in Callers : d < c =>
              api[d].op = "downloadVideo" /\ ApiSettled(api[d])
        => \A v \in VariantSet : Lookup(media, api[c].id, v) = Null

\* C25: delete(id) without a variant resolves only after its three deletes
\* per variant have settled, also when one of them fails: when it has
\* resolved, no delete of its fan-out waits or has its request pending.
C25_FanOutSettlesBeforeResolve ==
    \A c \in Callers :
        calls[c].op = "deleteAll" /\ Settled(calls[c]) =>
            \A v \in FanOutSet : subs[c][v] \notin {"awaitInit", "request"}

\* Resource ids with '-' inside, at the end, alone, and ending in each of the
\* suffixes getCacheKey appends.
DashedIds ==
    {"vid_1", "vid-1", "vid_1-", "-", "", "video", "vid_1-video",
     "vid_1-thumbnail", "vid_1-spritesheet", "vid_1-video-thumbnail"}

KeysInjective ==
    \A p, q \in DashedIds \X VariantSet :
        GetCacheKey(p[1], p[2]) = GetCacheKey(q[1], q[2]) => p = q

\* C26: getCacheKey is injective over the variant set {video, thumbnail,
\* spritesheet}, also for ids that contain '-' or end in '-video',
\* '-thumbnail' or '-spritesheet'; so the store holds one record per pair
\* that holds a blob, every pair reads its own blob, and a get that was
\* served returned the blob of its own pair.
C26_KeysInjective ==
    /\ KeysInjective
    /\ Cardinality(media) = Cardinality(Present)
    /\ \A k \in Ids \X VariantSet : Lookup(media, k[1], k[2]) = contents[k]
    /\ \A c \in Callers :
          calls[c].op = "get" /\ calls[c].pc = "resolved" /\ calls[c].fault = "none"
              => calls[c].result = contents[Key(calls[c])]

\* C26's case: the thumbnail of 'vid_1' and the video of 'vid_1-thumbnail'
\* hold different blobs, and a get of the first has returned its own.
C26_Witness ==
    /\ contents[<<"vid_1", "thumbnail">>] = Some(<<1>>)
    /\ contents[<<"vid_1-thumbnail", "video">>] = Some(<<2, 3>>)
    /\ \E c \in Callers :
          /\ calls[c].op = "get"
          /\ Key(calls[c]) = <<"vid_1", "thumbnail">>
          /\ calls[c].pc = "resolved"
          /\ calls[c].result = Some(<<1>>)

\* C27: deleteVideo(id) touches the cache only after the remote delete has
\* succeeded: while the remote delete is pending no method of the cache has
\* been called, and when it fails deleteVideo rejects with that error, no
\* delete of the cache is made, and every cached variant of id is unchanged.
C27_CacheDeleteAfterRemote ==
    \A c \in Callers :
        api[c].op = "deleteVideo" =>
            /\ api[c].pc = "remote" \/ api[c].error = "network" =>
                  /\ calls[c].op = "none"
                  /\ \A v \in VariantSet : subs[c][v] = "idle"
                  /\ \A i \in 1..Len(waiting) : waiting[i].c # c
                  /\ \A i \in 1..Len(requests) : requests[i].c # c
                  /\ media = api[c].before
            /\ api[c].error = "network" => api[c].pc = "rejected"

\* C27's case: a deleteVideo has rejected with the error of the remote delete
\* on a cache that holds two variants of its id, as before the call.
C27_Witness ==
    \E c \in Callers :
        /\ api[c].op = "deleteVideo"
        /\ api[c].pc = "rejected"
        /\ api[c].error = "network"
        /\ Lookup(media, api[c].id, "video") # Null
        /\ Lookup(media, api[c].id, "thumbnail") # Null
        /\ media = api[c].before

\* C28: when several downloadVideo(id, v) calls run together on a key without
\* entry, on an established connection (each of them missed and its request
\* to the network succeeded), each call returns the blob of its own request,
\* and once all have settled the store holds one record of (id, v), with one
\* of the fetched blobs.
C28_ConcurrentDownloads ==
    \A k \in Ids \X VariantSet :
        /\ db = "open"
        /\ \A c \in Callers :
              /\ api[c].op = "downloadVideo"
              /\ ApiKey(api[c]) = k
              /\ api[c].blob # Null
              /\ ApiSettled(api[c])
        => /\ \A c \in Callers :
                 api[c].pc = "resolved" /\ api[c].result = api[c].blob
           /\ Cardinality({r \in media : r.id = GetCacheKey(k[1], k[2])}) = 1
           /\ \E c \in Callers : Lookup(media, k[1], k[2]) = api[c].blob

\* C29: every call of get, set, delete, clear or getStats settles in the end,
\* also a call that waited on an initialization that then failed, when the
\* open request fires success or error and every storage request fires
\* success or error.
C29_EveryCallSettles ==
    \A c \in Callers : (calls[c].pc # "idle") ~> Settled(calls[c])

\* C29's case: the open request has fired its error event while every caller
\* waited on it, and every call has settled.
C29_Witness ==
    /\ initPromise = "rejected"
    /\ openReq = "done"
    /\ \A c \in Callers : calls[c].pc = "resolved" /\ calls[c].fault = "init"

\* C30: downloadVideo writes nothing to the cache when its request to the
\* network fails: the call rejects with the error of the request, set is not
\* called and the step leaves the store as it is; an entry of (id, v) comes
\* into the store, or changes, only as the blob a downloadVideo(id, v) has
\* fetched.
C30_FailedFetchWritesNothing ==
    [][/\ \A c \in Callers :
             /\ api[c].pc = "fetch" /\ api'[c].pc = "rejected" =>
                   api'[c].error = "network" /\ media' = media
             /\ api'[c].error = "network" /\ api'[c].op = "downloadVideo" =>
                   /\ api'[c].pc = "rejected"
                   /\ api'[c].blob = Null
                   /\ calls'[c].op = "none"
       /\ \A k \in Ids \X VariantSet :
             /\ Lookup(media', k[1], k[2]) # Null
             /\ Lookup(media', k[1], k[2]) # Lookup(media, k[1], k[2])
             => \E c \in Callers :
                   /\ api[c].op = "downloadVideo"
                   /\ ApiKey(api[c]) = k
                   /\ api[c].blob = Lookup(media', k[1], k[2])]_vars

\* C30's case: a downloadVideo has missed and rejected with the error of its
\* request, it has called no set, and its key has no entry.
C30_Witness ==
    \E c \in Callers :
        /\ api[c].op = "downloadVideo"
        /\ api[c].pc = "rejected"
        /\ api[c].error = "network"
        /\ api[c].fetches = 1
        /\ calls[c].op = "none"
        /\ Lookup(media, api[c].id, api[c].variant) = Null

====
